---- MODULE Spec2Model ----
(***************************************************************************)
(* System Monitor Dashboard (src/app.py): a Streamlit script that reads    *)
(* the SQLite store log.db (tables system_log and alerts_log, written by   *)
(* an external collector) through three accessors memoised by              *)
(* st.cache_data(ttl=10), and renders a sidebar and one of three pages.    *)
(*                                                                         *)
(* Percentages are whole numbers, a date is <<year, month, day>>, a text   *)
(* is a sequence of character codes.  None is "None" for a text argument,  *)
(* NoCpu for the cpu threshold and <<>> for the date range.                *)
(***************************************************************************)
EXTENDS Integers, Sequences, FiniteSets, TLC

VARIABLES
    system_log,         \* table system_log: a set of rows, id is the primary key
    alerts_log,         \* table alerts_log: a set of rows, id is the primary key
    available,          \* TRUE when log.db can be opened and holds both tables
    cache,              \* st.cache_data: key -> [value, age in seconds]
    auto_refresh,       \* st.session_state.auto_refresh
    refresh_interval,   \* st.session_state.refresh_interval
    page,               \* the "Select Page" radio
    ping_choice,        \* the "Ping Status" selectbox (dashboard_page: ping_filter)
    clicked,            \* the button pressed in the event that started the run
    toggle,             \* the "Enable Auto-Refresh" toggle
    pc,                 \* position of the script run
    caller,             \* the caller of the get_statistics call in progress
    gs,                 \* locals of the get_statistics call in progress
    stats,              \* dashboard_page: stats
    df,                 \* dashboard_page: df
    view,               \* what the page area shows
    side,               \* what the sidebar's Database section shows
    connects,           \* sqlite3.connect calls made by the current run
    raised,             \* where an accessor raised during the current run
    ret                 \* outcome of the last direct accessor call

storeVars == <<system_log, alerts_log>>

sessionVars == <<auto_refresh, refresh_interval>>

widgetVars == <<page, ping_choice, clicked, toggle>>

runVars == <<pc, caller, gs, stats, df, view, side, connects, raised>>

dashVars == <<cache, sessionVars, widgetVars, runVars, ret>>

vars == <<storeVars, available, dashVars>>

(* ---------------------------- bounds ----------------------------------- *)
MaxQRows == 2       \* rows of system_log in the query specification

MaxSRows == 2       \* rows of system_log in the statistics specification

MaxRows == 2        \* rows of system_log in the dashboard specification

MaxAlerts == 1      \* rows of alerts_log in the dashboard specification

TickStep == 5       \* seconds that pass in one step of the clock

(* ------------------------- program constants --------------------------- *)
NoCpu == -1         \* cpu_threshold=None

TTL == 10           \* @st.cache_data(ttl=10)

CpuLimit == 80

MemoryLimit == 85

DiskLimit == 90

DefaultInterval == 30

AlertLimit == 50

AlertsShown == 20

NumRecords == 20

None == "None"

(* ------------------------- inputs of the user -------------------------- *)
\* Choices of the "Ping Status" selectbox taken in the dashboard specification.
DashPingChoices == {"All", "DOWN"}


NoDate == <<>>

(* ------------------------------ texts ---------------------------------- *)
Digit(n) == 48 + n

Dash == 45

\* %Y of strftime: the year in four digits.
Year4(y) ==
    <<Digit(y \div 1000), Digit((y \div 100) % 10), Digit((y \div 10) % 10), Digit(y % 10)>>

\* %m and %d of strftime: two digits, zero padded.
TwoDigits(n) == <<Digit(n \div 10), Digit(n % 10)>>

\* A day-first rendering, '%d-%m-%Y'.
StrfDayFirst(d) == TwoDigits(d[3]) \o <<Dash>> \o TwoDigits(d[2]) \o <<Dash>> \o Year4(d[1])

\* date.strftime('%Y-%m-%d')
Strftime(d) == Year4(d[1]) \o <<Dash>> \o TwoDigits(d[2]) \o <<Dash>> \o TwoDigits(d[3])

\* SQLite DATE(timestamp): the date part of the stored text, as YYYY-MM-DD.
SqlDate(timestamp) ==
    Year4(timestamp[1]) \o <<Dash>> \o TwoDigits(timestamp[2]) \o <<Dash>> \o TwoDigits(timestamp[3])

\* First position where two texts differ, 0 when one is a prefix of the other.
RECURSIVE FirstDiff(_, _, _)
FirstDiff(a, b, i) ==
    IF i > Len(a) \/ i > Len(b) THEN 0
    ELSE IF a[i] # b[i] THEN i
    ELSE FirstDiff(a, b, i + 1)

\* SQLite text comparison a <= b (BINARY collation: byte by byte).
TextLeq(a, b) ==
    LET i == FirstDiff(a, b, 1)
    IN  IF i = 0 THEN Len(a) <= Len(b) ELSE a[i] < b[i]

\* x BETWEEN lo AND hi
SqlBetween(x, lo, hi) == TextLeq(lo, x) /\ TextLeq(x, hi)

(* ----------------------------- queries --------------------------------- *)
\* The row of greatest id of a non-empty set of rows.
MaxIdRow(rows) == CHOOSE r \in rows : \A q \in rows : q.id <= r.id

\* The row of smallest id of a non-empty set of rows.
MinIdRow(rows) == CHOOSE r \in rows : \A q \in rows : q.id >= r.id

\* ORDER BY id ASC
RECURSIVE OrderByIdAsc(_)
OrderByIdAsc(rows) ==
    IF rows = {} THEN <<>>
    ELSE LET r == MinIdRow(rows) IN <<r>> \o OrderByIdAsc(rows \ {r})

\* ORDER BY id, which is ascending.
OrderByIdDefault(rows) == OrderByIdAsc(rows)

\* ORDER BY id DESC
RECURSIVE OrderByIdDesc(_)
OrderByIdDesc(rows) ==
    IF rows = {} THEN <<>>
    ELSE LET r == MaxIdRow(rows) IN <<r>> \o OrderByIdDesc(rows \ {r})

\* if ping_filter and ping_filter != "All": conditions.append("ping_status = ?")
PingCondition(ping_filter) == ping_filter \notin {None, "", "All"}

\* if date_filter: conditions.append("DATE(timestamp) BETWEEN ? AND ?")
DateCondition(date_filter) == date_filter # NoDate

\* "cpu >= ?"
CpuAtLeast(cpu, cpu_threshold) == cpu >= cpu_threshold

\* if cpu_threshold is not None: conditions.append("cpu >= ?")
CpuCondition(cpu_threshold) == cpu_threshold # NoCpu

\* The WHERE clause: the appended conditions joined by AND, "1=1" when none.
WhereClause(r, ping_filter, date_filter, cpu_threshold) ==
    /\ PingCondition(ping_filter) => r.ping_status = ping_filter
    /\ DateCondition(date_filter) =>
           SqlBetween(SqlDate(r.timestamp), Strftime(date_filter[1]), Strftime(date_filter[2]))
    /\ CpuCondition(cpu_threshold) => CpuAtLeast(r.cpu, cpu_threshold)

\* SELECT * FROM system_log WHERE ... ORDER BY id DESC
SelectSystemLogs(ping_filter, date_filter, cpu_threshold) ==
    OrderByIdDesc({r \in system_log : WhereClause(r, ping_filter, date_filter, cpu_threshold)})

(* ----------------------------- helpers --------------------------------- *)
Min(a, b) == IF a <= b THEN a ELSE b

\* df.head(n)
Head_(frame, n) == SubSeq(frame, 1, Min(n, Len(frame)))

RowsOf(frame) == {frame[i] : i \in DOMAIN frame}

RECURSIVE SumSeq(_)
SumSeq(s) == IF s = <<>> THEN 0 ELSE s[1] + SumSeq(Tail(s))

\* A frame that is taken to hold rows whatever it holds.
EmptyNever(frame) == FALSE

\* DataFrame.empty
Empty(frame) == frame = <<>>

\* SELECT COUNT( * ) FROM table
Count(table) == Cardinality(table)

(* --------------------------- the session ------------------------------- *)
NoCall == [fn |-> "none"]

NoStats == [log_count |-> 0, alert_count |-> 0, latest |-> <<>>, base |-> {}]

ZeroStats ==
    [log_count |-> 0, alert_count |-> 0, threshold_violations |-> 0, latest_cpu |-> 0,
     latest_memory |-> 0, latest_disk |-> 0, latest_ping_status |-> "", latest_ping_ms |-> 0]

\* Nothing rendered: no message, no key metrics, no alerts section (-1), and
\* <<>> for each of the info line, the table, the charts and the summary.
BlankView ==
    [message |-> "", status |-> FALSE, alerts |-> -1, info |-> <<>>, table |-> <<>>,
     chart |-> <<>>, ping_chart |-> <<>>, summary |-> <<>>]

BlankSide == [state |-> "blank", metrics |-> <<>>]

EmptyCache == [k \in {} |-> [value |-> <<>>, age |-> 0]]

\* Session start: st.session_state defaults, widgets at their defaults, no
\* cache entry, nothing rendered.
SessionStart ==
    /\ cache = EmptyCache
    /\ auto_refresh = FALSE /\ refresh_interval = DefaultInterval
    /\ page = "Dashboard" /\ ping_choice = "All" /\ clicked = "none"
    /\ toggle = FALSE
    /\ caller = "none" /\ gs = NoStats /\ stats = ZeroStats /\ df = <<>>
    /\ view = BlankView /\ side = BlankSide
    /\ connects = 0 /\ raised = {}
    /\ ret = NoCall

\* A step that deletes the rows of system_log.
DeletesRows == system_log' = {} /\ UNCHANGED alerts_log

\* Every statement the script executes is a SELECT.
ReadOnly == UNCHANGED storeVars

(* ------------------------------ cache ---------------------------------- *)
StatsKey == <<"get_statistics">>

AlertsKey == <<"get_alerts_log">>

LogsKey(p, d, c) == <<"get_system_logs", p, d, c>>

\* An entry that never expires.
FreshForever(key) == key \in DOMAIN cache

\* The entry of key was computed less than ttl seconds ago.
Fresh(key) == key \in DOMAIN cache /\ cache[key].age < TTL

\* The cache after storing value under key at the current time.
Store(key, value) ==
    [k \in DOMAIN cache \cup {key} |->
        IF k = key THEN [value |-> value, age |-> 0] ELSE cache[k]]

\* What stands for the value of an expired entry, which no call reads.
Stale(key) == IF key = StatsKey THEN ZeroStats ELSE <<>>

\* The cache after dt seconds.  An entry past its ttl is never read again:
\* its age is kept as the ttl and its value is dropped.
Aged(dt) ==
    [k \in DOMAIN cache |->
        IF cache[k].age + dt < TTL
        THEN [cache[k] EXCEPT !.age = @ + dt]
        ELSE [value |-> Stale(k), age |-> TTL]]

\* st.cache_data.clear()
Cleared == EmptyCache

(* --------------------------- statistics -------------------------------- *)
\* fetchone() of "SELECT cpu, memory, disk, ping_status, ping_ms FROM
\* system_log ORDER BY id DESC LIMIT 1": a tuple, or <<>> for None.
SelectLatest(table) ==
    IF table = {} THEN <<>>
    ELSE LET r == MaxIdRow(table) IN <<r.cpu, r.memory, r.disk, r.ping_status, r.ping_ms>>

\* Violations among the rows the dashboard's ping filter selects.
CountFilteredViolations(table) ==
    Count({r \in table :
              /\ ping_choice # "All" => r.ping_status = ping_choice
              /\ r.cpu > CpuLimit \/ r.memory > MemoryLimit \/ r.disk > DiskLimit})

\* SELECT COUNT( * ) FROM system_log WHERE cpu > 80 OR memory > 85 OR disk > 90
CountViolations(table) ==
    Count({r \in table : r.cpu > CpuLimit \/ r.memory > MemoryLimit \/ r.disk > DiskLimit})

\* The returned dict with latest[i] read without the "if latest" guard.
StatisticsDictUnguarded(log_count, alert_count, threshold_violations, latest) ==
    IF latest = <<>> THEN [raised |-> TRUE, value |-> ZeroStats]
    ELSE [raised |-> FALSE,
          value |-> [log_count |-> log_count, alert_count |-> alert_count,
                     threshold_violations |-> threshold_violations,
                     latest_cpu |-> latest[1], latest_memory |-> latest[2],
                     latest_disk |-> latest[3], latest_ping_status |-> latest[4],
                     latest_ping_ms |-> latest[5]]]

\* The dict get_statistics returns.
StatisticsDict(log_count, alert_count, threshold_violations, latest) ==
    [raised |-> FALSE,
     value |-> [log_count |-> log_count, alert_count |-> alert_count,
                threshold_violations |-> threshold_violations,
                latest_cpu |-> IF latest # <<>> THEN latest[1] ELSE 0,
                latest_memory |-> IF latest # <<>> THEN latest[2] ELSE 0,
                latest_disk |-> IF latest # <<>> THEN latest[3] ELSE 0,
                latest_ping_status |-> IF latest # <<>> THEN latest[4] ELSE "N/A",
                latest_ping_ms |-> IF latest # <<>> THEN latest[5] ELSE 0]]

\* An exception that no handler catches.
Uncaught(site) == "aborted"

\* Where the run continues after an accessor raises: past the try statement
\* of sidebar_navigation or of dashboard_page; a direct call has no handler.
AfterRaise(site) ==
    CASE site = "sidebar" -> "route"
      [] site = "dashboard" -> "tail"
      [] OTHER -> "direct"

\* An accessor called from site raises.
Raise(site) ==
    /\ raised' = raised \cup {site}
    /\ pc' = AfterRaise(site)
    /\ side' = IF site = "sidebar" THEN [state |-> "warning", metrics |-> <<>>] ELSE side
    /\ view' = IF site = "dashboard" THEN [view EXCEPT !.message = "error"] ELSE view
    /\ ret' = IF site = "direct" THEN [fn |-> "get_statistics", raised |-> TRUE] ELSE ret
    /\ UNCHANGED stats

\* get_statistics returns value to site.
Deliver(site, value) ==
    /\ pc' = CASE site = "sidebar" -> "route"
               [] site = "dashboard" -> "d_alerts"
               [] OTHER -> "direct"
    /\ side' = IF site = "sidebar"
               THEN [state |-> "metrics",
                     metrics |-> <<value.log_count, value.alert_count,
                                   value.threshold_violations>>]
               ELSE side
    /\ stats' = IF site = "dashboard" THEN value ELSE stats
    /\ view' = IF site = "dashboard" THEN [view EXCEPT !.status = TRUE] ELSE view
    /\ ret' = IF site = "direct"
              THEN [fn |-> "get_statistics", raised |-> FALSE, value |-> value,
                    table |-> system_log, quiet |-> gs.base = system_log]
              ELSE ret
    /\ UNCHANGED raised

\* get_statistics, lines 160-164: connect, SELECT COUNT( * ) FROM system_log.
StatisticsBegin(site) ==
    /\ IF available
       THEN /\ gs' = [log_count |-> Count(system_log), alert_count |-> 0,
                      latest |-> <<>>, base |-> system_log]
            /\ caller' = site
            /\ pc' = "gs_alerts"
            /\ UNCHANGED <<stats, view, side, raised, ret>>
       ELSE Raise(site) /\ UNCHANGED <<caller, gs>>
    /\ ReadOnly
    /\ UNCHANGED <<available, cache, sessionVars, widgetVars, df>>

\* get_statistics() through st.cache_data.
CallGetStatistics(site) ==
    IF Fresh(StatsKey)
    THEN /\ Deliver(site, cache[StatsKey].value)
         /\ ReadOnly
         /\ UNCHANGED <<available, cache, sessionVars, widgetVars, caller, gs, df, connects>>
    ELSE StatisticsBegin(site) /\ connects' = connects + 1

\* get_statistics, lines 166-167: SELECT COUNT( * ) FROM alerts_log.
StatisticsAlerts ==
    /\ pc = "gs_alerts"
    /\ IF available
       THEN /\ gs' = [gs EXCEPT !.alert_count = Count(alerts_log)]
            /\ pc' = "gs_latest"
            /\ UNCHANGED <<caller, stats, view, side, raised, ret>>
       ELSE Raise(caller) /\ caller' = "none" /\ gs' = NoStats
    /\ ReadOnly
    /\ UNCHANGED <<available, cache, sessionVars, widgetVars, df, connects>>

\* get_statistics, lines 170-176: the latest row.
StatisticsLatest ==
    /\ pc = "gs_latest"
    /\ IF available
       THEN /\ gs' = [gs EXCEPT !.latest = SelectLatest(system_log)]
            /\ pc' = "gs_violations"
            /\ UNCHANGED <<caller, stats, view, side, raised, ret>>
       ELSE Raise(caller) /\ caller' = "none" /\ gs' = NoStats
    /\ ReadOnly
    /\ UNCHANGED <<available, cache, sessionVars, widgetVars, df, connects>>

\* get_statistics, lines 179-193: the violations count, close, return; the
\* cache stores what a cached call returns.
StatisticsReturn ==
    /\ pc = "gs_violations"
    /\ IF available
       THEN LET o == StatisticsDict(gs.log_count, gs.alert_count,
                                    CountViolations(system_log), gs.latest)
            IN  IF o.raised
                THEN Raise(caller) /\ UNCHANGED cache
                ELSE /\ Deliver(caller, o.value)
                     /\ cache' = IF caller = "direct" THEN cache ELSE Store(StatsKey, o.value)
       ELSE Raise(caller) /\ UNCHANGED cache
    /\ caller' = "none"
    /\ gs' = NoStats
    /\ ReadOnly
    /\ UNCHANGED <<available, sessionVars, widgetVars, df, connects>>

(* ------------------------- other accessors ----------------------------- *)
\* The body of get_alerts_log: SELECT * FROM alerts_log ORDER BY id DESC LIMIT 50.
GetAlertsLog ==
    IF available
    THEN [raised |-> FALSE, value |-> Head_(OrderByIdDesc(alerts_log), AlertLimit)]
    ELSE [raised |-> TRUE, value |-> <<>>]

\* The body of get_system_logs.
GetSystemLogs(ping_filter, date_filter, cpu_threshold) ==
    IF available
    THEN [raised |-> FALSE, value |-> SelectSystemLogs(ping_filter, date_filter, cpu_threshold)]
    ELSE [raised |-> TRUE, value |-> <<>>]

\* A cached call of a one-statement accessor: the stored value while the
\* entry is fresh, otherwise the outcome of the body.
Lookup(key, body) ==
    IF Fresh(key)
    THEN [hit |-> TRUE, raised |-> FALSE, value |-> cache[key].value]
    ELSE [hit |-> FALSE, raised |-> body.raised, value |-> body.value]

\* The cache after the call: a value the body returned is stored.
AfterLookup(key, o) == IF o.hit \/ o.raised THEN cache ELSE Store(key, o.value)

(* ------------------------------ the run -------------------------------- *)
\* A script run starts: locals are gone, nothing is rendered yet.
Rerun ==
    /\ pc' = "start"
    /\ caller' = "none" /\ gs' = NoStats /\ stats' = ZeroStats /\ df' = <<>>
    /\ view' = BlankView /\ side' = BlankSide
    /\ connects' = 0 /\ raised' = {}

\* sidebar_navigation, lines 548-550: the Refresh Data button was pressed.
RefreshData ==
    /\ pc = "start" /\ clicked = "refresh"
    /\ cache' = Cleared
    /\ clicked' = "none"
    /\ Rerun
    /\ ReadOnly
    /\ UNCHANGED <<available, sessionVars, page, ping_choice, toggle, ret>>

\* sidebar_navigation, lines 562-568: the Database section.
SidebarStatistics ==
    /\ pc = "start" /\ clicked # "refresh"
    /\ CallGetStatistics("sidebar")

\* dashboard_page, lines 229-262: stats = get_statistics(), the key metrics.
DashboardStatistics ==
    /\ pc = "route" /\ page = "Dashboard"
    /\ CallGetStatistics("dashboard")

\* dashboard_page, lines 266-286: alerts_df = get_alerts_log(), the alerts.
DashboardAlerts ==
    /\ pc = "d_alerts"
    /\ LET o == Lookup(AlertsKey, GetAlertsLog)
       IN  /\ cache' = AfterLookup(AlertsKey, o)
           /\ connects' = IF o.hit THEN connects ELSE connects + 1
           /\ IF o.raised
              THEN Raise("dashboard")
              ELSE /\ view' = [view EXCEPT !.alerts = Min(AlertsShown, Len(o.value))]
                   /\ pc' = "d_logs"
                   /\ UNCHANGED <<stats, side, raised, ret>>
    /\ ReadOnly
    /\ UNCHANGED <<available, sessionVars, widgetVars, caller, gs, df>>

\* The first argument of the call at lines 292-296.
PingArg == IF ping_choice # "All" THEN ping_choice ELSE None

\* dashboard_page, lines 292-314: df = get_system_logs(...), the info line
\* and the table, or the warning and return.
DashboardLogs ==
    /\ pc = "d_logs"
    /\ LET key == LogsKey(PingArg, NoDate, NoCpu)
           o == Lookup(key, GetSystemLogs(PingArg, NoDate, NoCpu))
       IN  /\ cache' = AfterLookup(key, o)
           /\ connects' = IF o.hit THEN connects ELSE connects + 1
           /\ IF o.raised
              THEN Raise("dashboard") /\ UNCHANGED df
              ELSE /\ df' = o.value
                   /\ IF ~Empty(o.value)
                      THEN /\ view' = [view EXCEPT
                                  !.info = <<Min(NumRecords, Len(o.value)), Len(o.value),
                                             stats.log_count>>,
                                  !.table = <<Head_(o.value, NumRecords)>>]
                           /\ pc' = "d_charts"
                      ELSE /\ view' = [view EXCEPT !.message = "no_data"]
                           /\ pc' = "tail"
                   /\ UNCHANGED <<stats, side, raised, ret>>
    /\ ReadOnly
    /\ UNCHANGED <<available, sessionVars, widgetVars, caller, gs>>

NaN == -1

\* Series.mean() in hundredths; NaN over an empty series.
Mean(s) == IF s = <<>> THEN NaN ELSE (SumSeq(s) * 100) \div Len(s)

\* Series.max(); NaN over an empty series.
Max_(s) == IF s = <<>> THEN NaN ELSE CHOOSE x \in RowsOf(s) : \A y \in RowsOf(s) : y <= x

\* Series.min(); NaN over an empty series.
Min_(s) == IF s = <<>> THEN NaN ELSE CHOOSE x \in RowsOf(s) : \A y \in RowsOf(s) : y >= x

Aggregates(s) == [mean |-> Mean(s), max |-> Max_(s), min |-> Min_(s)]

\* value_counts() of ping_status with the percentage of len(chart_df), in tenths.
PingSummary(chart_df) ==
    [p \in {chart_df[i].ping_status : i \in DOMAIN chart_df} |->
        LET count == Cardinality({i \in DOMAIN chart_df : chart_df[i].ping_status = p})
        IN  [count |-> count, percentage |-> (count * 1000) \div Len(chart_df)]]

\* Lines 365-397: the two summary tables.
Summary(chart_df) ==
    [cpu |-> Aggregates([i \in DOMAIN chart_df |-> chart_df[i].cpu]),
     memory |-> Aggregates([i \in DOMAIN chart_df |-> chart_df[i].memory]),
     disk |-> Aggregates([i \in DOMAIN chart_df |-> chart_df[i].disk]),
     ping |-> PingSummary(chart_df)]

\* dashboard_page, lines 322-399: the charts and the summary tables.
DashboardCharts ==
    /\ pc = "d_charts"
    /\ LET chart_df == OrderByIdAsc(RowsOf(df))
           ping_df == SelectSeq(chart_df, LAMBDA r : r.ping_ms > 0)
       IN  view' = IF ~Empty(chart_df)
                   THEN [view EXCEPT
                            !.chart = <<chart_df>>,
                            !.ping_chart = IF ~Empty(ping_df) THEN <<ping_df>> ELSE <<>>,
                            !.summary = <<Summary(chart_df)>>]
                   ELSE [view EXCEPT !.message = "no_chart_data"]
    /\ pc' = "tail"
    /\ ReadOnly
    /\ UNCHANGED <<available, cache, sessionVars, widgetVars, caller, gs, stats, df, side,
                   connects, raised, ret>>

\* settings_page: the toggle is copied to the session state, the interval
\* slider is left where it stands and so is refresh_interval, the Clear Cache
\* button clears the cache.
SettingsPage ==
    /\ pc = "route" /\ page = "Settings"
    /\ auto_refresh' = toggle
    /\ refresh_interval' = refresh_interval
    /\ cache' = IF clicked = "clear" THEN Cleared ELSE cache
    /\ clicked' = "none"
    /\ view' = [view EXCEPT !.message = IF clicked = "clear" THEN "cache_cleared" ELSE "settings"]
    /\ pc' = "tail"
    /\ ReadOnly
    /\ UNCHANGED <<available, page, ping_choice, toggle, caller, gs, stats, df, side,
                   connects, raised, ret>>

\* about_page
AboutPage ==
    /\ pc = "route" /\ page = "About"
    /\ view' = [view EXCEPT !.message = "about"]
    /\ pc' = "tail"
    /\ ReadOnly
    /\ UNCHANGED <<available, cache, sessionVars, widgetVars, caller, gs, stats, df, side,
                   connects, raised, ret>>

\* Auto-refresh on every page.
AutoRefreshAnyPage == auto_refresh

\* Line 589: if st.session_state.auto_refresh and page == "Dashboard"
AutoRefreshDue == auto_refresh /\ page = "Dashboard"

\* main, lines 588-589: the end of the run; the locals of the page are gone.
EndOfRun ==
    /\ pc = "tail"
    /\ pc' = IF AutoRefreshDue THEN "sleep" ELSE "idle"
    /\ stats' = ZeroStats /\ df' = <<>>
    /\ connects' = 0 /\ raised' = {}
    /\ ReadOnly
    /\ UNCHANGED <<available, cache, sessionVars, widgetVars, caller, gs, view, side, ret>>

\* main, line 591: time.sleep(st.session_state.refresh_interval)
AutoRefreshSleep ==
    /\ pc = "sleep"
    /\ cache' = Aged(refresh_interval)
    /\ pc' = "wake"
    /\ ReadOnly
    /\ UNCHANGED <<available, sessionVars, widgetVars, caller, gs, stats, df, view, side,
                   connects, raised, ret>>

\* main, lines 592-593: st.cache_data.clear(); st.rerun()
AutoRefreshRerun ==
    /\ pc = "wake"
    /\ cache' = Cleared
    /\ Rerun
    /\ ReadOnly
    /\ UNCHANGED <<available, sessionVars, widgetVars, ret>>

(* ------------------------------ the user ------------------------------- *)
\* A widget event: it starts a run when the script is idle; during the
\* auto-refresh sleep the new widget state is picked up by the rerun that
\* follows the sleep.
Event ==
    /\ pc \in {"idle", "sleep"}
    /\ IF pc = "idle" THEN Rerun ELSE UNCHANGED runVars
    /\ ReadOnly
    /\ UNCHANGED <<available, cache, sessionVars, ret>>

SelectPage ==
    /\ \E p \in {"Dashboard", "Settings", "About"} \ {page} : page' = p
    /\ Event
    /\ UNCHANGED <<ping_choice, clicked, toggle>>

SelectPing ==
    /\ page = "Dashboard"
    /\ \E f \in DashPingChoices \ {ping_choice} : ping_choice' = f
    /\ Event
    /\ UNCHANGED <<page, clicked, toggle>>

ClickRefresh ==
    /\ clicked' = "refresh"
    /\ Event
    /\ UNCHANGED <<page, ping_choice, toggle>>

ClickClearCache ==
    /\ page = "Settings"
    /\ clicked' = "clear"
    /\ Event
    /\ UNCHANGED <<page, ping_choice, toggle>>

ToggleAutoRefresh ==
    /\ page = "Settings"
    /\ toggle' = ~toggle
    /\ Event
    /\ UNCHANGED <<page, ping_choice, clicked>>

(* --------------------------- environment ------------------------------- *)
\* Time passes by one step of the clock while the script waits for an event;
\* a run takes far less than one step.
Tick ==
    /\ pc = "idle"
    /\ \E k \in DOMAIN cache : cache[k].age < TTL
    /\ cache' = Aged(TickStep)
    /\ UNCHANGED <<storeVars, available, sessionVars, widgetVars, runVars, ret>>

\* log.db becomes unreadable, or readable again.
StoreFlips ==
    /\ available' = ~available
    /\ UNCHANGED <<storeVars, dashVars>>

\* The id an INTEGER PRIMARY KEY gets on insert: one more than the greatest.
NextId(table) == IF table = {} THEN 1 ELSE MaxIdRow(table).id + 1

\* The external collector appends a row to system_log.
CollectorInsertLog(kinds, max) ==
    /\ available
    /\ Cardinality(system_log) < max
    /\ \E k \in kinds :
           system_log' = system_log \cup
               {[id |-> NextId(system_log), timestamp |-> k.timestamp, cpu |-> k.cpu,
                 memory |-> k.memory, disk |-> k.disk, ping_status |-> k.ping_status,
                 ping_ms |-> k.ping_ms]}
    /\ UNCHANGED <<alerts_log, available, dashVars>>

\* The external alerting process appends a row to alerts_log.
CollectorInsertAlert(max) ==
    /\ available
    /\ Cardinality(alerts_log) < max
    /\ alerts_log' = alerts_log \cup
           {[id |-> NextId(alerts_log), timestamp |-> <<2024, 12, 1>>, alert_type |-> "CPU",
             message |-> "High CPU"]}
    /\ UNCHANGED <<system_log, available, dashVars>>

(* ------------------- query specification: inputs ----------------------- *)
QDates == {<<2024, 11, 30>>, <<2024, 12, 1>>, <<2025, 1, 2>>}

QRow(d, c, p) ==
    [timestamp |-> d, cpu |-> c, memory |-> 40, disk |-> 40, ping_status |-> p,
     ping_ms |-> IF p = "UP" THEN 12 ELSE 0]

QRowKinds ==
    {QRow(<<2024, 11, 30>>, 50, "UP"), QRow(<<2024, 11, 30>>, 85, "DOWN"),
     QRow(<<2024, 12, 1>>, 85, "UP"), QRow(<<2024, 12, 1>>, 50, "DOWN"),
     QRow(<<2025, 1, 2>>, 85, "UP"), QRow(<<2025, 1, 2>>, 50, "DOWN")}

QPingArgs == {None, "All", "UP", "DOWN"}

QDateArgs == {NoDate} \cup (QDates \X QDates)

QCpuArgs == {NoCpu, 0, 50, 60}

\* The table holding row kinds k[1..n] under ids 1..n.
TableOf(k) ==
    {[id |-> i, timestamp |-> k[i].timestamp, cpu |-> k[i].cpu, memory |-> k[i].memory,
      disk |-> k[i].disk, ping_status |-> k[i].ping_status, ping_ms |-> k[i].ping_ms]
        : i \in DOMAIN k}

InitQuery ==
    /\ \E n \in 0..MaxQRows : \E k \in [1..n -> QRowKinds] : system_log = TableOf(k)
    /\ alerts_log = {}
    /\ available = TRUE
    /\ SessionStart
    /\ pc = "direct"

\* get_system_logs(ping_filter, date_filter, cpu_threshold), the function body.
CallGetSystemLogs ==
    \E p \in QPingArgs, d \in QDateArgs, c \in QCpuArgs :
        /\ ret' = [fn |-> "get_system_logs", ping_filter |-> p, date_filter |-> d,
                   cpu_threshold |-> c, df |-> SelectSystemLogs(p, d, c)]
        /\ pc = "direct"
        /\ ReadOnly
        /\ UNCHANGED <<available, cache, sessionVars, widgetVars, runVars>>

NextQuery == CallGetSystemLogs

SpecQuery == InitQuery /\ [][NextQuery]_vars

(* ----------------- statistics specification ---------------------------- *)
SRow(c, m, d, p) ==
    [timestamp |-> <<2024, 12, 1>>, cpu |-> c, memory |-> m, disk |-> d, ping_status |-> p,
     ping_ms |-> IF p = "UP" THEN 12 ELSE 0]

SRowKinds ==
    {SRow(80, 85, 90, "UP"), SRow(81, 40, 40, "UP"), SRow(40, 86, 40, "DOWN"),
     SRow(40, 40, 91, "UP"), SRow(95, 90, 95, "DOWN")}

PingChoices == {"All", "UP", "DOWN"}

InitStats ==
    /\ system_log = {}
    /\ alerts_log \in {{}, {[id |-> 1, timestamp |-> <<2024, 12, 1>>, alert_type |-> "CPU",
                            message |-> "High CPU"]}}
    /\ available = TRUE
    /\ SessionStart
    /\ pc = "direct"

\* get_statistics() called directly.
CallStatisticsDirect ==
    /\ pc = "direct"
    /\ StatisticsBegin("direct")
    /\ connects' = 1

\* The dashboard's ping filter is set to another value.
StatsSelectPing ==
    /\ pc = "direct"
    /\ \E f \in PingChoices \ {ping_choice} : ping_choice' = f
    /\ UNCHANGED <<storeVars, available, cache, sessionVars, page, clicked, toggle,
                   runVars, ret>>

StatsCollector == CollectorInsertLog(SRowKinds, MaxSRows)

NextStats ==
    \/ CallStatisticsDirect
    \/ StatisticsAlerts
    \/ StatisticsLatest
    \/ StatisticsReturn
    \/ StatsSelectPing
    \/ StatsCollector

SpecStats == InitStats /\ [][NextStats]_vars

(* ------------------- dashboard specification --------------------------- *)
\* The sample the collector writes under id: the host is up and quiet in the
\* odd samples, down and above every limit in the even ones.
DRowKinds(id) ==
    IF id % 2 = 1 THEN {SRow(50, 40, 40, "UP")} ELSE {SRow(95, 90, 95, "DOWN")}

Init ==
    /\ system_log = {}
    /\ alerts_log = {}
    /\ available \in BOOLEAN
    /\ SessionStart
    /\ pc = "start"

Collector == CollectorInsertLog(DRowKinds(NextId(system_log)), MaxRows)

Alerting == CollectorInsertAlert(MaxAlerts)

Next ==
    \/ RefreshData
    \/ SidebarStatistics
    \/ StatisticsAlerts
    \/ StatisticsLatest
    \/ StatisticsReturn
    \/ DashboardStatistics
    \/ DashboardAlerts
    \/ DashboardLogs
    \/ DashboardCharts
    \/ SettingsPage
    \/ AboutPage
    \/ EndOfRun
    \/ AutoRefreshSleep
    \/ AutoRefreshRerun
    \/ SelectPage
    \/ SelectPing
    \/ ClickRefresh
    \/ ClickClearCache
    \/ ToggleAutoRefresh
    \/ Tick
    \/ StoreFlips
    \/ Collector
    \/ Alerting

Spec == Init /\ [][Next]_vars

(* ------------------------------ C1 ------------------------------------- *)
\* Calendar order of two dates.
DateLeq(a, b) ==
    \/ a[1] < b[1]
    \/ a[1] = b[1] /\ a[2] < b[2]
    \/ a[1] = b[1] /\ a[2] = b[2] /\ a[3] <= b[3]

\* The rows that satisfy every active predicate of a call.
Matching(call) ==
    {r \in system_log :
        /\ call.ping_filter \in {"UP", "DOWN"} => r.ping_status = call.ping_filter
        /\ call.date_filter # NoDate =>
               DateLeq(call.date_filter[1], r.timestamp) /\ DateLeq(r.timestamp, call.date_filter[2])
        /\ call.cpu_threshold # NoCpu => r.cpu >= call.cpu_threshold}

\* C1: get_system_logs returns exactly the rows of system_log that satisfy
\* every active predicate (ping_status equal to the filter, start_date <=
\* DATE(timestamp) <= end_date, cpu >= cpu_threshold); an absent filter
\* restricts nothing.
C1_ExactFilter ==
    ret.fn = "get_system_logs" => RowsOf(ret.df) = Matching(ret)

\* All three filters active, a row kept, a row dropped by the date range only
\* and a row whose cpu equals the threshold.
C1_Witness ==
    /\ ret.fn = "get_system_logs"
    /\ ret.ping_filter = "UP" /\ ret.date_filter # NoDate /\ ret.cpu_threshold = 50
    /\ \E r \in RowsOf(ret.df) : r.cpu = ret.cpu_threshold
    /\ \E r \in system_log \ RowsOf(ret.df) :
           r.ping_status = "UP" /\ r.cpu >= 50 /\ ~DateLeq(r.timestamp, ret.date_filter[2])

(* ------------------------------ C2 ------------------------------------- *)
NoFilter(call) ==
    call.ping_filter \in {None, "All"} /\ call.date_filter = NoDate /\ call.cpu_threshold = NoCpu

\* C2: the sequence returned by get_system_logs is strictly descending in id,
\* and with no filter active it holds every row of system_log exactly once.
C2_DescendingId ==
    ret.fn = "get_system_logs" =>
        /\ \A i \in 1..(Len(ret.df) - 1) : ret.df[i].id > ret.df[i + 1].id
        /\ NoFilter(ret) =>
               /\ RowsOf(ret.df) = system_log
               /\ Len(ret.df) = Cardinality(system_log)

C2_Witness ==
    /\ ret.fn = "get_system_logs" /\ NoFilter(ret)
    /\ Len(ret.df) >= 2
    /\ ret.df[1].id > ret.df[2].id

(* ------------------------------ C3 ------------------------------------- *)
\* The cached call the script is about to make, as <<key>>, or <<>>.
CallAt ==
    CASE pc = "start" /\ clicked # "refresh" -> <<StatsKey>>
      [] pc = "route" /\ page = "Dashboard" -> <<StatsKey>>
      [] pc = "d_alerts" -> <<AlertsKey>>
      [] pc = "d_logs" -> <<LogsKey(PingArg, NoDate, NoCpu)>>
      [] OTHER -> <<>>

\* What the caller holds of the value v after the step.
Received(key, v) ==
    CASE key = StatsKey /\ pc = "start" ->
             side'.metrics = <<v.log_count, v.alert_count, v.threshold_violations>>
      [] key = StatsKey /\ pc = "route" -> stats' = v
      [] key = AlertsKey -> view'.alerts = Min(20, Len(v))
      [] OTHER -> df' = v

\* A step that clears the cache: the Refresh Data button, the Clear Cache
\* button, the auto-refresh tick.
ClearStep ==
    \/ pc = "start" /\ clicked = "refresh" /\ clicked' = "none"
    \/ pc = "route" /\ page = "Settings" /\ clicked = "clear" /\ pc' # pc
    \/ pc = "wake" /\ pc' # pc

\* C3: a cached accessor called less than 10 seconds after the last
\* computation for its key returns the stored value and queries nothing; called
\* with no entry, or 10 seconds or more after the computation, it queries the
\* store again; a cache clear leaves no entry for any key.
C3_CacheTTL ==
    [][/\ (CallAt # <<>> /\ pc' # pc) =>
            (LET key == CallAt[1]
             IN  IF key \in DOMAIN cache /\ cache[key].age < 10
                 THEN /\ connects' = connects
                      /\ cache' = cache
                      /\ Received(key, cache[key].value)
                 ELSE connects' = connects + 1)
       /\ ClearStep => (DOMAIN cache' = {})]_vars

\* The run served get_statistics twice from an entry one tick old without a
\* connection and is about to call get_alerts_log, whose entry has expired.
C3_Witness ==
    /\ pc = "d_alerts" /\ connects = 0
    /\ StatsKey \in DOMAIN cache /\ cache[StatsKey].age = TickStep
    /\ AlertsKey \in DOMAIN cache /\ cache[AlertsKey].age = TTL

(* ------------------------------ C4 ------------------------------------- *)
NothingOfLogs(v) ==
    v.info = <<>> /\ v.table = <<>> /\ v.chart = <<>> /\ v.ping_chart = <<>> /\ v.summary = <<>>

\* C4: an accessor failure never aborts the run; when one was raised in
\* dashboard_page the render ends with the error message and no log rows,
\* charts or summary tables, when one was raised in sidebar_navigation the
\* sidebar shows its warning, and the run goes on to its end, from where
\* further runs start.
C4_FailureCaught ==
    /\ pc # "aborted"
    /\ "dashboard" \in raised => pc = "tail" /\ view.message = "error" /\ NothingOfLogs(view)
    /\ "sidebar" \in raised => side.state = "warning" /\ side.metrics = <<>>
    /\ pc = "tail" => ENABLED EndOfRun

\* The store was lost after the key metrics were shown: both handlers ran.
C4_Witness ==
    /\ pc = "tail" /\ ~available
    /\ raised = {"sidebar", "dashboard"}
    /\ view.message = "error"

(* ------------------------------ C5 ------------------------------------- *)
LatestDefaults(v) ==
    /\ v.latest_cpu = 0 /\ v.latest_memory = 0 /\ v.latest_disk = 0
    /\ v.latest_ping_ms = 0 /\ v.latest_ping_status = "N/A"

LatestOf(v, r) ==
    /\ v.latest_cpu = r.cpu /\ v.latest_memory = r.memory /\ v.latest_disk = r.disk
    /\ v.latest_ping_status = r.ping_status /\ v.latest_ping_ms = r.ping_ms

\* C5: with the store reachable get_statistics does not raise; over a
\* system_log that holds no rows during the call it returns log_count = 0,
\* threshold_violations = 0 and the 0 / "N/A" latest fields; over one that
\* holds rows (and gets none during the call) the latest fields are those of
\* the row with the greatest id.
C5_EmptyAndLatest ==
    ret.fn = "get_statistics" =>
        /\ ~ret.raised
        /\ ret.quiet /\ ret.table = {} =>
               /\ ret.value.log_count = 0 /\ ret.value.threshold_violations = 0
               /\ LatestDefaults(ret.value)
        /\ ret.quiet /\ ret.table # {} =>
               \E r \in ret.table :
                   /\ \A q \in ret.table : q.id <= r.id
                   /\ LatestOf(ret.value, r)

\* A call over the empty table has returned.
C5_Witness ==
    /\ ret.fn = "get_statistics" /\ ~ret.raised
    /\ ret.quiet /\ ret.table = {}
    /\ LatestDefaults(ret.value)

(* ------------------------------ C6 ------------------------------------- *)
\* C6: threshold_violations is the number of rows of the whole system_log
\* with cpu > 80 OR memory > 85 OR disk > 90 (strict, a row counted once), and
\* log_count the number of all its rows, whatever filter the dashboard has
\* active (for a table that gets no row during the call).
C6_ViolationsWholeTable ==
    ret.fn = "get_statistics" /\ ~ret.raised /\ ret.quiet =>
        /\ ret.value.threshold_violations =
               Cardinality({r \in ret.table : r.cpu > 80} \cup {r \in ret.table : r.memory > 85}
                           \cup {r \in ret.table : r.disk > 90})
        /\ ret.value.log_count = Cardinality(ret.table)

\* A ping filter is active; the table holds a row at the three limits (not a
\* violation) and an UP row above a limit, which the filter would drop.
C6_Witness ==
    /\ ret.fn = "get_statistics" /\ ~ret.raised /\ ret.quiet
    /\ ping_choice = "DOWN"
    /\ \E r \in ret.table : r.cpu = 80 /\ r.memory = 85 /\ r.disk = 90
    /\ \E r \in ret.table : r.ping_status = "UP" /\ r.disk > 90
    /\ ret.value.threshold_violations = 1 /\ ret.value.log_count = 2

(* ------------------------------ C7 ------------------------------------- *)
\* C7: a dashboard render whose filtered frame is empty, the store being
\* reachable, ends with the "no data" message, which is not the error message,
\* and with no info line, table, chart or summary; a summary is only ever
\* computed over a non-empty frame and holds no NaN.
C7_EmptyResult ==
    /\ pc = "tail" /\ page = "Dashboard" /\ "dashboard" \notin raised /\ df = <<>> =>
           view.message = "no_data" /\ NothingOfLogs(view)
    /\ view.message = "no_data" => "dashboard" \notin raised /\ NothingOfLogs(view)
    /\ view.summary # <<>> =>
           /\ view.chart # <<>> /\ view.chart[1] # <<>>
           /\ \A c \in {"cpu", "memory", "disk"} :
                  /\ view.summary[1][c].mean # NaN
                  /\ view.summary[1][c].max # NaN
                  /\ view.summary[1][c].min # NaN

\* The store holds a row and is reachable, the DOWN filter selects none.
C7_Witness ==
    /\ pc = "tail" /\ page = "Dashboard" /\ raised = {}
    /\ available /\ system_log # {} /\ ping_choice = "DOWN"
    /\ df = <<>> /\ view.message = "no_data"

(* ------------------------------ C8 ------------------------------------- *)
\* C8 as stated: while auto-refresh is enabled every completed render is
\* followed by the wait, the invalidation and the re-render.
C8_EveryRender ==
    [][pc = "tail" /\ auto_refresh /\ pc' # pc => pc' = "sleep"]_vars

\* C8, amended: while auto-refresh is enabled each completed render of the
\* Dashboard page, and no other, is followed in this order by a wait of the
\* configured interval, a clear of every cache entry and a re-render that
\* starts with an empty cache; the wait and the clear happen only while
\* auto-refresh is enabled.
C8_DashboardRender ==
    [][/\ pc = "tail" /\ pc' # pc =>
            IF auto_refresh /\ page = "Dashboard" THEN pc' = "sleep" ELSE pc' = "idle"
       /\ pc = "sleep" /\ pc' # pc =>
            /\ pc' = "wake"
            /\ DOMAIN cache' = DOMAIN cache
            /\ \A k \in DOMAIN cache :
                   cache'[k].age = IF cache[k].age + refresh_interval < 10
                                   THEN cache[k].age + refresh_interval ELSE 10
       /\ pc = "wake" /\ pc' # pc =>
            pc' = "start" /\ DOMAIN cache' = {} /\ view' = BlankView /\ connects' = 0
       /\ pc' \in {"sleep", "wake"} => auto_refresh']_vars

\* A Dashboard render is over and the script has slept: every entry expired.
C8_Witness ==
    /\ pc = "wake" /\ auto_refresh /\ refresh_interval = 30
    /\ view.status /\ StatsKey \in DOMAIN cache
    /\ \A k \in DOMAIN cache : cache[k].age = TTL

(* ------------------------------ C9 ------------------------------------- *)
\* C9: no step of the script and no event of the user changes system_log or
\* alerts_log: a step that changes the store changes nothing of the
\* dashboard, it is a step of the external collector.
C9_StoreUntouched ==
    [][storeVars' # storeVars => UNCHANGED dashVars]_vars

\* A Dashboard render over a non-empty store is over, the rows are there.
C9_Witness ==
    /\ pc = "idle" /\ page = "Dashboard"
    /\ view.table # <<>> /\ Len(view.table[1]) = 2
    /\ Cardinality(system_log) = 2

(* ------------------------------ C10 ------------------------------------ *)
\* C10: every snapshot get_statistics returns is consistent with one state
\* of the store: threshold_violations <= log_count, and log_count = 0 exactly
\* when the latest fields are the 0 / "N/A" defaults.
C10_ConsistentSnapshot ==
    ret.fn = "get_statistics" /\ ~ret.raised =>
        /\ ret.value.threshold_violations <= ret.value.log_count
        /\ ret.value.log_count = 0 <=> LatestDefaults(ret.value)

\* C11: in every dashboard render that shows the info line "Showing X of Y
\* filtered records (Total: Z)", the filtered count Y (len(df), from the
\* get_system_logs entry) never exceeds the total Z (stats['log_count'], from
\* the get_statistics entry).
C11_FilteredWithinTotal ==
    view.info # <<>> => view.info[2] <= view.info[3]

====
